---- MODULE Spec2Model ----
(***************************************************************************)
(* A model of the WebGL/AR model viewer: the controller WebGLARApp         *)
(* (src/src/main.js), the AR helper ARMode (src/unnamed/part_001), the     *)
(* viewer ModelViewer (src/unnamed/part_002) and the file loader           *)
(* ModelLoader (src/unnamed/part_003).  The browser (file reader, parsers, *)
(* WebXR device, camera, user) is the environment: each of its answers is  *)
(* a separate action.  Every action is one task of the browser's event     *)
(* loop together with the microtasks (await continuations) it triggers.    *)
(***************************************************************************)
EXTENDS Integers, Sequences, FiniteSets, TLC

(***************************************************************************)
(* Bounds of the model.                                                    *)
(***************************************************************************)
MaxLoads == 2        \* loadModel invocations in one behaviour
MaxARStarts == 2     \* enterAR invocations that pass the model check
MaxClones == 2       \* clones made by ARMode.placeModel

(***************************************************************************)
(* Program constants.                                                      *)
(***************************************************************************)
maxSize == 50 * 1024 * 1024

Null == 0

(***************************************************************************)
(* Strings are sequences of one-character strings, so that toLowerCase and *)
(* endsWith are computed and not assumed.                                  *)
(***************************************************************************)
UpperToLower ==
  [c \in {"A", "B", "F", "G", "L", "S", "T"} |->
     CASE c = "A" -> "a" [] c = "B" -> "b" [] c = "F" -> "f"
       [] c = "G" -> "g" [] c = "L" -> "l" [] c = "S" -> "s"
       [] c = "T" -> "t"]

toLowerCase(s) ==
  [i \in 1..Len(s) |-> IF s[i] \in DOMAIN UpperToLower THEN UpperToLower[s[i]] ELSE s[i]]

endsWith(s, e) ==
  /\ Len(s) >= Len(e)
  /\ SubSeq(s, Len(s) - Len(e) + 1, Len(s)) = e

ExtGlb == <<".", "g", "l", "b">>
ExtGltf == <<".", "g", "l", "t", "f">>
ExtStl == <<".", "s", "t", "l">>

supportedExtensions == <<ExtGlb, ExtGltf, ExtStl>>

(***************************************************************************)
(* ModelLoader.validateFile: "true" when it returns true, otherwise the    *)
(* error it throws.                                                        *)
(***************************************************************************)
validateFile_sizeOffByOne(file) ==
  LET fileName == toLowerCase(file.name)
      isSupported == \E k \in 1..Len(supportedExtensions) :
                        endsWith(fileName, supportedExtensions[k])
  IN  IF ~isSupported THEN "Unsupported file format"
      ELSE IF file.size >= maxSize THEN "File too large"
      ELSE "true"

validateFile_noSizeLimit(file) ==
  LET fileName == toLowerCase(file.name)
      isSupported == \E k \in 1..Len(supportedExtensions) :
                        endsWith(fileName, supportedExtensions[k])
  IN  IF ~isSupported THEN "Unsupported file format" ELSE "true"

validateFile(file) ==
  LET fileName == toLowerCase(file.name)
      isSupported == \E k \in 1..Len(supportedExtensions) :
                        endsWith(fileName, supportedExtensions[k])
  IN  IF ~isSupported THEN "Unsupported file format"
      ELSE IF file.size > maxSize THEN "File too large"
      ELSE "true"

(***************************************************************************)
(* ModelLoader.loadModel: the format dispatch.                             *)
(***************************************************************************)
loadModel_dispatch_glbOnly(file) ==
  LET fileName == toLowerCase(file.name)
  IN  IF endsWith(fileName, ExtGlb) THEN "gltf"
      ELSE IF endsWith(fileName, ExtStl) THEN "stl"
      ELSE "Unsupported file format"

loadModel_dispatch(file) ==
  LET fileName == toLowerCase(file.name)
  IN  IF endsWith(fileName, ExtGlb) \/ endsWith(fileName, ExtGltf) THEN "gltf"
      ELSE IF endsWith(fileName, ExtStl) THEN "stl"
      ELSE "Unsupported file format"

(***************************************************************************)
(* What the promise returned by ModelLoader.loadModel is made of: the      *)
(* parser the file is handed to, and the type and the animations of the    *)
(* result it resolves with (loadGLTF passes on the parser's animations,    *)
(* loadSTL resolves with an empty list).  An unsupported name rejects      *)
(* before any parser is chosen.                                            *)
(***************************************************************************)
NoDispatch == [parser |-> "none", type |-> "none", animations |-> "none"]

loadModel_result(file) ==
  LET type == loadModel_dispatch(file)
  IN  IF type = "gltf"
        THEN [parser |-> "gltfLoader", type |-> "gltf", animations |-> "gltf.animations"]
      ELSE IF type = "stl"
        THEN [parser |-> "stlLoader", type |-> "stl", animations |-> "[]"]
      ELSE [parser |-> "none", type |-> type, animations |-> "none"]

(***************************************************************************)
(* ModelLoader.processModel: the fit-to-view transform.  Lengths are in    *)
(* tenths; a fresh object has position 0 and scale 1.0.                    *)
(***************************************************************************)
processModel(file) ==
  LET scale == 20 \div file.maxDim
  IN  [position |-> <<0 - (file.center[1] * scale) \div 10,
                      0 - (file.center[2] * scale) \div 10,
                      0 - (file.center[3] * scale) \div 10>>,
       scale |-> scale]

(***************************************************************************)
(* The files the user can select or drop.                                  *)
(***************************************************************************)
MkFile(name, size, maxDim, center) ==
  [name |-> name, size |-> size, maxDim |-> maxDim, center |-> center]

FileGlb == MkFile(<<"a", ".", "g", "l", "b">>, 1, 2, <<0, 0, 0>>)
FileStl == MkFile(<<"B", ".", "S", "T", "L">>, maxSize, 4, <<20, 0, -20>>)
FileBig == MkFile(<<"a", ".", "g", "l", "t", "f">>, maxSize + 1, 2, <<0, 0, 0>>)
FileObj == MkFile(<<"a", ".", "o", "b", "j">>, 2 * maxSize, 2, <<0, 0, 0>>)

Files == {FileGlb, FileStl, FileBig, FileObj}

(***************************************************************************)
(* The inputs of the validation check: names built from a stem and an      *)
(* ending, sizes around the limit.                                         *)
(***************************************************************************)
Stems == { <<>>, <<"a">>, <<"A", ".", "s", "t", "l">>, <<"b", ".", "G", "L", "B", ".">> }
Endings == { <<>>, ExtGlb, ExtGltf, ExtStl,
             <<".", "G", "L", "B">>, <<".", "G", "l", "T", "f">>, <<".", "S", "t", "L">>,
             <<"g", "l", "b">>, <<".", "g", "l">>, <<".", "o", "b", "j">>,
             <<".", "s", "t", "l", "a">>, <<".", "g", "l", "t", "f", ".">> }
Sizes == {0, 1, maxSize - 1, maxSize, maxSize + 1, 2 * maxSize}

ValidationFiles ==
  { MkFile(st \o en, sz, 2, <<0, 0, 0>>) : st \in Stems, en \in Endings, sz \in Sizes }

(***************************************************************************)
(* The devices the page can run on: the user agent class, whether the      *)
(* device answers isSessionSupported('immersive-ar') with true, the        *)
(* environmentBlendMode of its XR sessions, and the DeviceOrientationEvent *)
(* API ("none": absent, "direct": present, "permission": present with      *)
(* requestPermission).                                                     *)
(***************************************************************************)
Device(ua, ar, blend, orient) == [ua |-> ua, ar |-> ar, blend |-> blend, orient |-> orient]

Devices ==
  { Device("desktop", FALSE, "opaque", "direct"),
    Device("android", TRUE, "alpha-blend", "direct"),
    Device("iphone", FALSE, "opaque", "permission"),
    Device("iphone", FALSE, "opaque", "none"),
    Device("iphone", TRUE, "additive", "direct") }

VARIABLES
  device,              \* the device the page runs on
  isIOS,               \* WebGLARApp.isIOS
  currentModel,        \* WebGLARApp.currentModel (a load index, or Null)
  isARActive,          \* WebGLARApp.isARActive
  hasWebXR,            \* WebGLARApp.hasWebXR
  arVideoElement,      \* WebGLARApp.arVideoElement (a stream, or Null)
  arButton,            \* [disabled, textContent] of #ar-button
  errorDiv,            \* [visible, textContent] of #error
  loadingDiv,          \* [visible, textContent] of #loading
  bodyARMode,          \* document.body carries the class 'ar-mode'
  orientation,         \* [listeners, pending]: registered 'deviceorientation'
                       \* listeners and pending requestPermission promises
  videos,              \* camera video elements in the document
  liveTracks,          \* camera streams whose tracks are live
  scene,               \* ModelViewer.scene: the objects in the render graph
  viewerModel,         \* ModelViewer.currentModel
  camera,              \* [position, rotation] of ModelViewer.camera
  background,          \* ModelViewer.scene.background
  lights,              \* [ambient, directional] intensities, in tenths
  xr,                  \* [enabled, session, loop]: renderer.xr.enabled, the
                       \* session given to renderer.xr.setSession and the
                       \* callback set with renderer.setAnimationLoop
  xform,               \* position and scale of every model object
  arMode,              \* the fields of ARMode
  sessions,            \* the platform's XR sessions: state, blend mode, 'end'
                       \* listeners, and whether the 'end' event is queued
  check,               \* [app, ar]: the two support checks are pending/done
  loads,               \* the loadModel invocations, in call order
  arStarts,            \* the enterAR invocations that passed the model check
  calls,               \* counters of the platform calls issued
  vFile,               \* the file handed to validateFile (validation check)
  vResult,             \* its outcome
  vDispatch,           \* what ModelLoader.loadModel does with the same file
  disposed,            \* ModelViewer.dispose has run
  resize               \* [listeners, size]: the 'resize' listeners ModelViewer
                       \* has on window, and the container size the renderer
                       \* was last sized to

vars == <<device, isIOS, currentModel, isARActive, hasWebXR, arVideoElement,
          arButton, errorDiv, loadingDiv, bodyARMode, orientation, videos,
          liveTracks, scene, viewerModel, camera, background, lights, xr,
          xform, arMode, sessions, check, loads, arStarts, calls, vFile, vResult,
          vDispatch, disposed, resize>>

appVars == <<currentModel, isARActive, hasWebXR, arVideoElement>>
domVars == <<arButton, errorDiv, loadingDiv, bodyARMode, orientation, videos, liveTracks>>
viewerVars == <<scene, viewerModel, camera, background, lights, xr, xform>>
envVars == <<device, isIOS, vFile, vResult, vDispatch, disposed, resize>>

NoFile == MkFile(<<>>, 0, 2, <<0, 0, 0>>)

(***************************************************************************)
(* The file input: the program never sets its disabled attribute.          *)
(***************************************************************************)
modelInput == [disabled |-> FALSE]

Model(i) == <<"model", i>>
Clone(c) == <<"clone", c>>
Reticle(k) == <<"reticle", k>>

InitProgram ==
  /\ device \in Devices
  /\ isIOS = (device.ua = "iphone")
  /\ currentModel = Null
  /\ isARActive = FALSE
  /\ hasWebXR = FALSE
  /\ arVideoElement = Null
  /\ arButton = [disabled |-> TRUE, textContent |-> "Enter AR Mode"]
  /\ errorDiv = [visible |-> FALSE, textContent |-> <<"Failed to load model", "">>]
  /\ loadingDiv = [visible |-> FALSE, textContent |-> "Loading model..."]
  /\ bodyARMode = FALSE
  /\ orientation = [listeners |-> 0, pending |-> 0]
  /\ videos = {}
  /\ liveTracks = {}
  /\ scene = {}
  /\ viewerModel = Null
  /\ camera = [position |-> <<0, 0, 50>>, rotation |-> <<0, 0, 0>>]
  /\ background = "f0f0f0"
  /\ lights = [ambient |-> 6, directional |-> 8]
  /\ xr = [enabled |-> FALSE, session |-> Null, loop |-> "none"]
  /\ xform = <<>>
  /\ arMode = [isARSupported |-> FALSE, xrSession |-> Null, xrRefSpace |-> Null,
               xrHitTestSource |-> Null, placedModel |-> Null, reticle |-> Null,
               reticleVisible |-> FALSE]
  /\ sessions = <<>>
  /\ check = [app |-> "pending", ar |-> "pending"]
  /\ loads = <<>>
  /\ arStarts = <<>>
  /\ calls = [requestSession |-> 0, getUserMedia |-> 0, end |-> 0, clones |-> 0]
  /\ disposed = FALSE
  /\ resize = [listeners |-> 1, size |-> "initial"]

Init ==
  /\ InitProgram
  /\ vFile = NoFile
  /\ vResult = "none"
  /\ vDispatch = NoDispatch

(***************************************************************************)
(* WebGLARApp.showLoading / hideLoading / showError / hideError.           *)
(***************************************************************************)
showLoading(message) == [visible |-> TRUE, textContent |-> message]
hideLoading(div) == [div EXCEPT !.visible = FALSE]
showError(message) == [visible |-> TRUE, textContent |-> message]
hideError(div) == [div EXCEPT !.visible = FALSE]

(***************************************************************************)
(* ModelViewer.clearCurrentModel: the scene and the viewer's currentModel  *)
(* after the call.                                                         *)
(***************************************************************************)
clearCurrentModel_keepsScene ==
  IF viewerModel # Null
    THEN [scene |-> scene, currentModel |-> Null]
    ELSE [scene |-> scene, currentModel |-> viewerModel]

clearCurrentModel ==
  IF viewerModel # Null
    THEN [scene |-> scene \ {Model(viewerModel)}, currentModel |-> Null]
    ELSE [scene |-> scene, currentModel |-> viewerModel]

InFlight(ld) == ld.pc \in {"reading", "parsing"}

(***************************************************************************)
(* WebGLARApp.loadModel, after the await, when the promise was fulfilled   *)
(* by load i: replace the model, update the AR button, hide the loading    *)
(* indicator.                                                              *)
(***************************************************************************)
loadModel_then_viewerOnly(i) ==
  LET cleared == clearCurrentModel
  IN  /\ scene' = cleared.scene \cup {Model(i)}
      /\ viewerModel' = i
      /\ currentModel' = currentModel
      /\ xform' = (Model(i) :> processModel(loads[i].file)) @@ xform
      /\ arButton' = IF hasWebXR
                       THEN [disabled |-> FALSE, textContent |-> "Enter AR Mode"]
                       ELSE IF isIOS
                         THEN [disabled |-> FALSE, textContent |-> "AR Simulation"]
                         ELSE arButton
      /\ loadingDiv' = hideLoading(loadingDiv)
      /\ UNCHANGED <<isARActive, hasWebXR, arVideoElement, errorDiv, bodyARMode,
                     orientation, videos, liveTracks, camera, background, lights, xr>>

loadModel_then_noIOSFallback(i) ==
  LET cleared == clearCurrentModel
  IN  /\ scene' = cleared.scene \cup {Model(i)}
      /\ viewerModel' = i
      /\ currentModel' = i
      /\ xform' = (Model(i) :> processModel(loads[i].file)) @@ xform
      /\ arButton' = IF hasWebXR
                       THEN [disabled |-> FALSE, textContent |-> "Enter AR Mode"]
                       ELSE arButton
      /\ loadingDiv' = hideLoading(loadingDiv)
      /\ UNCHANGED <<isARActive, hasWebXR, arVideoElement, errorDiv, bodyARMode,
                     orientation, videos, liveTracks, camera, background, lights, xr>>

loadModel_then(i) ==
  LET cleared == clearCurrentModel
  IN  /\ scene' = cleared.scene \cup {Model(i)}
      /\ viewerModel' = i
      /\ currentModel' = i
      /\ xform' = (Model(i) :> processModel(loads[i].file)) @@ xform
      /\ arButton' = IF hasWebXR
                       THEN [disabled |-> FALSE, textContent |-> "Enter AR Mode"]
                       ELSE IF isIOS
                         THEN [disabled |-> FALSE, textContent |-> "AR Simulation"]
                         ELSE arButton
      /\ loadingDiv' = hideLoading(loadingDiv)
      /\ UNCHANGED <<isARActive, hasWebXR, arVideoElement, errorDiv, bodyARMode,
                     orientation, videos, liveTracks, camera, background, lights, xr>>

(***************************************************************************)
(* WebGLARApp.loadModel, the catch block.                                  *)
(***************************************************************************)
loadModel_catch_clearsModel(message) ==
  /\ errorDiv' = showError(<<"Failed to load model", message>>)
  /\ loadingDiv' = hideLoading(loadingDiv)
  /\ scene' = clearCurrentModel.scene
  /\ viewerModel' = clearCurrentModel.currentModel
  /\ UNCHANGED <<appVars, arButton, bodyARMode, orientation, videos, liveTracks,
                 camera, background, lights, xr, xform>>

loadModel_catch(message) ==
  /\ errorDiv' = showError(<<"Failed to load model", message>>)
  /\ loadingDiv' = hideLoading(loadingDiv)
  /\ UNCHANGED <<appVars, arButton, bodyARMode, orientation, videos, liveTracks,
                 viewerVars>>

(***************************************************************************)
(* WebGLARApp.loadModel up to its await: validateFile, showLoading,        *)
(* hideError, then ModelLoader.loadModel, which starts the file read (or   *)
(* rejects, and the catch block runs in the same task).                    *)
(***************************************************************************)
loadModel(file) ==
  /\ Len(loads) < MaxLoads
  /\ LET valid == validateFile(file)
         type == loadModel_dispatch(file)
     IN  IF valid # "true"
           THEN /\ loads' = Append(loads, [file |-> file, pc |-> "failed", type |-> "none",
                                           reads |-> 0, parses |-> 0])
                /\ loadModel_catch(valid)
           ELSE IF type \in {"gltf", "stl"}
             THEN /\ loads' = Append(loads, [file |-> file, pc |-> "reading", type |-> type,
                                             reads |-> 1, parses |-> 0])
                  /\ loadingDiv' = showLoading("Loading model...")
                  /\ errorDiv' = hideError(errorDiv)
                  /\ UNCHANGED <<appVars, arButton, bodyARMode, orientation, videos,
                                 liveTracks, viewerVars>>
             ELSE /\ loads' = Append(loads, [file |-> file, pc |-> "failed", type |-> "none",
                                             reads |-> 0, parses |-> 0])
                  /\ errorDiv' = showError(<<"Failed to load model", type>>)
                  /\ loadingDiv' = [visible |-> FALSE, textContent |-> "Loading model..."]
                  /\ UNCHANGED <<appVars, arButton, bodyARMode, orientation, videos,
                                 liveTracks, viewerVars>>
  /\ UNCHANGED <<envVars, arMode, sessions, check, arStarts, calls>>

(***************************************************************************)
(* The 'change' listener of the file input and the 'drop' listener of the  *)
(* container.                                                              *)
(***************************************************************************)
InputChange == \E file \in Files : loadModel(file)

Drop == \E file \in Files : loadModel(file)

(***************************************************************************)
(* ModelLoader.loadGLTF / loadSTL: the FileReader's onload.  The glTF      *)
(* parser answers through callbacks; the STL parser runs inside onload and *)
(* either returns a geometry or throws.                                    *)
(***************************************************************************)
ReaderOnLoad(i) ==
  /\ loads[i].pc = "reading"
  /\ IF loads[i].type = "gltf"
       THEN /\ loads' = [loads EXCEPT ![i].pc = "parsing", ![i].parses = @ + 1]
            /\ UNCHANGED <<appVars, domVars, viewerVars>>
       ELSE \/ /\ loads' = [loads EXCEPT ![i].pc = "done", ![i].parses = @ + 1]
               /\ loadModel_then(i)
            \/ /\ loads' = [loads EXCEPT ![i].pc = "failed", ![i].parses = @ + 1]
               /\ loadModel_catch("parse")
  /\ UNCHANGED <<envVars, arMode, sessions, check, arStarts, calls>>

ReaderOnError(i) ==
  /\ loads[i].pc = "reading"
  /\ loads' = [loads EXCEPT ![i].pc = "failed"]
  /\ loadModel_catch(IF loads[i].type = "gltf" THEN "Failed to read file" ELSE "undefined")
  /\ UNCHANGED <<envVars, arMode, sessions, check, arStarts, calls>>

ParseOnLoad(i) ==
  /\ loads[i].pc = "parsing"
  /\ loads' = [loads EXCEPT ![i].pc = "done"]
  /\ loadModel_then(i)
  /\ UNCHANGED <<envVars, arMode, sessions, check, arStarts, calls>>

ParseOnError(i) ==
  /\ loads[i].pc = "parsing"
  /\ loads' = [loads EXCEPT ![i].pc = "failed"]
  /\ loadModel_catch("Failed to parse glTF file")
  /\ UNCHANGED <<envVars, arMode, sessions, check, arStarts, calls>>

(***************************************************************************)
(* ARMode.checkARSupport, after its await.                                 *)
(***************************************************************************)
checkARSupport ==
  /\ check.ar = "pending"
  /\ check' = [check EXCEPT !.ar = "done"]
  /\ arMode' = [arMode EXCEPT !.isARSupported = device.ar]
  /\ UNCHANGED <<envVars, appVars, domVars, viewerVars, sessions, loads, arStarts, calls>>

(***************************************************************************)
(* WebGLARApp.checkWebXRSupport, after its await.  WebXRUtils catches      *)
(* every error of the platform check, so the catch block here is dead.     *)
(***************************************************************************)
checkWebXRSupport_ignoresModel ==
  /\ check.app = "pending"
  /\ check' = [check EXCEPT !.app = "done"]
  /\ hasWebXR' = device.ar
  /\ arButton' =
       IF device.ar THEN [disabled |-> FALSE, textContent |-> "Enter AR Mode"]
       ELSE IF isIOS THEN [disabled |-> TRUE, textContent |-> "Load Model First"]
       ELSE [disabled |-> TRUE, textContent |-> "AR Not Supported"]
  /\ errorDiv' = IF ~device.ar /\ device.ua \in {"android", "iphone"}
                   THEN showError(<<"AR Debug", "">>)
                   ELSE errorDiv
  /\ UNCHANGED <<envVars, currentModel, isARActive, arVideoElement, loadingDiv,
                 bodyARMode, orientation, videos, liveTracks, viewerVars, arMode,
                 sessions, loads, arStarts, calls>>

checkWebXRSupport ==
  /\ check.app = "pending"
  /\ check' = [check EXCEPT !.app = "done"]
  /\ hasWebXR' = device.ar
  /\ arButton' =
       IF device.ar THEN [disabled |-> FALSE, textContent |-> "Enter AR Mode"]
       ELSE IF isIOS /\ currentModel # Null
         THEN [disabled |-> FALSE, textContent |-> "AR Simulation"]
       ELSE IF isIOS THEN [disabled |-> TRUE, textContent |-> "Load Model First"]
       ELSE [disabled |-> TRUE, textContent |-> "AR Not Supported"]
  /\ errorDiv' = IF ~device.ar /\ device.ua \in {"android", "iphone"}
                   THEN showError(<<"AR Debug", "">>)
                   ELSE errorDiv
  /\ UNCHANGED <<envVars, currentModel, isARActive, arVideoElement, loadingDiv,
                 bodyARMode, orientation, videos, liveTracks, viewerVars, arMode,
                 sessions, loads, arStarts, calls>>

(***************************************************************************)
(* The platform (WebXR): at most one immersive session is pending or       *)
(* active; requestSession made meanwhile is rejected.                      *)
(***************************************************************************)
Running(sid) == sid # Null /\ sessions[sid].state = "running"

ImmersiveBusy ==
  \/ \E sid \in 1..Len(sessions) : Running(sid)
  \/ \E k \in 1..Len(arStarts) : arStarts[k].pc = "requestSession" /\ ~arStarts[k].excluded

ARStart(mode, pc, excluded) ==
  [mode |-> mode, pc |-> pc, excluded |-> excluded, session |-> Null, lights0 |-> lights]

XRPending == {"requestSession", "localFloor", "viewerSpace", "hitTestSource"}

(***************************************************************************)
(* WebGLARApp.enterAR, the catch block.                                    *)
(***************************************************************************)
enterAR_catch_keepsLoading(message) ==
  /\ errorDiv' = showError(<<"AR failed", message>>)
  /\ loadingDiv' = showLoading("Starting AR session...")

enterAR_catch(message) ==
  /\ errorDiv' = showError(<<"AR failed", message>>)
  /\ loadingDiv' = hideLoading(showLoading("Starting AR session..."))

(***************************************************************************)
(* WebGLARApp.enterAR up to its first await.  On the WebXR path            *)
(* ARMode.startARSession throws when AR is unsupported and otherwise       *)
(* issues navigator.xr.requestSession.  On the fallback path               *)
(* startARSimulation is called without await: it issues getUserMedia and   *)
(* enterAR goes on to hide the loading indicator.                          *)
(***************************************************************************)
enterAR_noModelCheck ==
  /\ Len(arStarts) < MaxARStarts
  /\ IF hasWebXR
       THEN IF ~arMode.isARSupported
              THEN /\ arStarts' = Append(arStarts, ARStart("xr", "failed", FALSE))
                   /\ enterAR_catch("AR not supported on this device")
                   /\ UNCHANGED calls
              ELSE /\ arStarts' = Append(arStarts,
                                         ARStart("xr", "requestSession", ImmersiveBusy))
                   /\ calls' = [calls EXCEPT !.requestSession = @ + 1]
                   /\ loadingDiv' = showLoading("Starting AR session...")
                   /\ UNCHANGED errorDiv
       ELSE /\ arStarts' = Append(arStarts, ARStart("sim", "getUserMedia", FALSE))
            /\ calls' = [calls EXCEPT !.getUserMedia = @ + 1]
            /\ loadingDiv' = hideLoading(showLoading("Starting AR session..."))
            /\ UNCHANGED errorDiv

enterAR ==
  IF currentModel = Null
    THEN /\ errorDiv' = showError(<<"Please load a 3D model first", "">>)
         /\ UNCHANGED <<loadingDiv, arStarts, calls>>
    ELSE /\ Len(arStarts) < MaxARStarts
         /\ IF hasWebXR
              THEN IF ~arMode.isARSupported
                     THEN /\ arStarts' = Append(arStarts, ARStart("xr", "failed", FALSE))
                          /\ enterAR_catch("AR not supported on this device")
                          /\ UNCHANGED calls
                     ELSE /\ arStarts' = Append(arStarts,
                                                ARStart("xr", "requestSession", ImmersiveBusy))
                          /\ calls' = [calls EXCEPT !.requestSession = @ + 1]
                          /\ loadingDiv' = showLoading("Starting AR session...")
                          /\ UNCHANGED errorDiv
              ELSE /\ arStarts' = Append(arStarts, ARStart("sim", "getUserMedia", FALSE))
                   /\ calls' = [calls EXCEPT !.getUserMedia = @ + 1]
                   /\ loadingDiv' = hideLoading(showLoading("Starting AR session..."))
                   /\ UNCHANGED errorDiv

(***************************************************************************)
(* ARMode.endARSession: end the session the helper refers to, if any.      *)
(* XRSession.end() on a running session ends it and queues its 'end'       *)
(* event.                                                                  *)
(***************************************************************************)
endARSession ==
  IF arMode.xrSession # Null
    THEN /\ calls' = [calls EXCEPT !.end = @ + 1]
         /\ sessions' = IF Running(arMode.xrSession)
                          THEN [sessions EXCEPT ![arMode.xrSession].state = "ended",
                                                ![arMode.xrSession].endQueued = TRUE]
                          ELSE sessions
    ELSE UNCHANGED <<calls, sessions>>

(***************************************************************************)
(* WebGLARApp.exitAR.                                                      *)
(***************************************************************************)
exitAR ==
  /\ IF hasWebXR
       THEN /\ endARSession
            /\ xr' = [xr EXCEPT !.loop = "none"]
            /\ UNCHANGED <<arVideoElement, liveTracks, videos, camera, background,
                           xform, errorDiv>>
       ELSE /\ liveTracks' = liveTracks \ {arVideoElement}
            /\ videos' = videos \ {arVideoElement}
            /\ arVideoElement' = Null
            /\ camera' = [position |-> <<0, 0, 50>>, rotation |-> <<0, 0, 0>>]
            /\ background' = "f0f0f0"
            /\ xform' = IF currentModel # Null
                          THEN [xform EXCEPT ![Model(currentModel)] =
                                  [position |-> <<0, 0, 0>>, scale |-> 10]]
                          ELSE xform
            /\ errorDiv' = hideError(errorDiv)
            /\ UNCHANGED <<calls, sessions, xr>>
  /\ isARActive' = FALSE
  /\ arButton' = [arButton EXCEPT !.textContent =
                    IF hasWebXR THEN "Enter AR Mode" ELSE "AR Simulation"]
  /\ bodyARMode' = FALSE
  /\ UNCHANGED <<loadingDiv, arStarts>>

(***************************************************************************)
(* The 'click' listener of the AR button.  A disabled button receives no   *)
(* click.                                                                  *)
(***************************************************************************)
ARButtonClick ==
  /\ ~arButton.disabled
  /\ IF isARActive
       THEN exitAR
       ELSE /\ enterAR
            /\ UNCHANGED <<isARActive, arButton, bodyARMode, arVideoElement, liveTracks,
                           videos, camera, background, xform, sessions, xr>>
  /\ UNCHANGED <<envVars, currentModel, hasWebXR, orientation, scene, viewerModel,
                 lights, arMode, check, loads>>

(***************************************************************************)
(* ARMode.startARSession, after navigator.xr.requestSession resolved: the  *)
(* session is stored and setupXRSession requests the 'local-floor'         *)
(* reference space.                                                        *)
(***************************************************************************)
requestSession_resolved_skipsLocalFloor(k) ==
  /\ arStarts[k].pc = "requestSession"
  /\ ~arStarts[k].excluded
  /\ sessions' = Append(sessions, [state |-> "running", blend |-> device.blend,
                                   listeners |-> 0, endQueued |-> FALSE])
  /\ arMode' = [arMode EXCEPT !.xrSession = Len(sessions) + 1]
  /\ arStarts' = [arStarts EXCEPT ![k].pc = "viewerSpace", ![k].session = Len(sessions) + 1]
  /\ UNCHANGED <<envVars, appVars, domVars, viewerVars, check, loads, calls>>

requestSession_resolved(k) ==
  /\ arStarts[k].pc = "requestSession"
  /\ ~arStarts[k].excluded
  /\ sessions' = Append(sessions, [state |-> "running", blend |-> device.blend,
                                   listeners |-> 0, endQueued |-> FALSE])
  /\ arMode' = [arMode EXCEPT !.xrSession = Len(sessions) + 1]
  /\ arStarts' = [arStarts EXCEPT ![k].pc = "localFloor", ![k].session = Len(sessions) + 1]
  /\ UNCHANGED <<envVars, appVars, domVars, viewerVars, check, loads, calls>>

(***************************************************************************)
(* After requestReferenceSpace('local-floor') resolved: setupARLighting,   *)
(* renderer.xr, createReticle, and setupHitTest requests the 'viewer'      *)
(* reference space.  setupARLighting reads this.xrSession after it has     *)
(* dimmed the ambient light; if an 'end' event has cleared this.xrSession  *)
(* meanwhile the read throws and the start fails.                          *)
(***************************************************************************)
localFloor_resolved(k) ==
  /\ arStarts[k].pc = "localFloor"
  /\ Running(arStarts[k].session)
  /\ IF arMode.xrSession = Null
       THEN /\ arMode' = [arMode EXCEPT !.xrRefSpace = arStarts[k].session]
            /\ lights' = [lights EXCEPT !.ambient = 3]
            /\ arStarts' = [arStarts EXCEPT ![k].pc = "failed"]
            /\ enterAR_catch("TypeError")
            /\ UNCHANGED <<xr, scene>>
       ELSE /\ arMode' = [arMode EXCEPT !.xrRefSpace = arStarts[k].session,
                                        !.reticle = k,
                                        !.reticleVisible = FALSE]
            /\ lights' = [ambient |-> 3,
                          directional |-> IF sessions[arMode.xrSession].blend = "additive"
                                            THEN 5 ELSE lights.directional]
            /\ xr' = [xr EXCEPT !.enabled = TRUE, !.session = arMode.xrSession]
            /\ scene' = scene \cup {Reticle(k)}
            /\ arStarts' = [arStarts EXCEPT ![k].pc = "viewerSpace",
                                            ![k].session = arMode.xrSession]
            /\ UNCHANGED <<errorDiv, loadingDiv>>
  /\ UNCHANGED <<envVars, appVars, arButton, bodyARMode, orientation, videos, liveTracks,
                 viewerModel, camera, background, xform, sessions, check, loads, calls>>

(***************************************************************************)
(* ARMode.setupHitTest, after requestReferenceSpace('viewer') resolved.    *)
(***************************************************************************)
viewerSpace_resolved(k) ==
  /\ arStarts[k].pc = "viewerSpace"
  /\ Running(arStarts[k].session)
  /\ arStarts' = [arStarts EXCEPT ![k].pc = "hitTestSource"]
  /\ UNCHANGED <<envVars, appVars, domVars, viewerVars, arMode, sessions, check, loads, calls>>

(***************************************************************************)
(* After requestHitTestSource resolved: the 'end' listener is added,       *)
(* startARSession returns true and enterAR continues after its await.      *)
(***************************************************************************)
hitTestSource_resolved(k) ==
  /\ arStarts[k].pc = "hitTestSource"
  /\ Running(arStarts[k].session)
  /\ arMode' = [arMode EXCEPT !.xrHitTestSource = arStarts[k].session]
  /\ IF arMode.xrSession = Null
       THEN /\ arStarts' = [arStarts EXCEPT ![k].pc = "failed"]
            /\ enterAR_catch("TypeError")
            /\ UNCHANGED <<sessions, isARActive, arButton, bodyARMode, xr>>
       ELSE /\ sessions' = [sessions EXCEPT ![arMode.xrSession].listeners = @ + 1]
            /\ arStarts' = [arStarts EXCEPT ![k].pc = "active"]
            /\ isARActive' = TRUE
            /\ arButton' = [arButton EXCEPT !.textContent = "Exit AR"]
            /\ bodyARMode' = TRUE
            /\ xr' = [xr EXCEPT !.loop = "xr"]
            /\ loadingDiv' = hideLoading(loadingDiv)
            /\ UNCHANGED errorDiv
  /\ UNCHANGED <<envVars, currentModel, hasWebXR, arVideoElement, orientation, videos,
                 liveTracks, scene, viewerModel, camera, background, lights, xform,
                 check, loads, calls>>

(***************************************************************************)
(* Any of the four platform requests of startARSession rejects: the catch  *)
(* block of startARSession rethrows and the catch block of enterAR runs.   *)
(***************************************************************************)
startARSession_rejected(k) ==
  /\ arStarts[k].pc \in XRPending
  /\ arStarts' = [arStarts EXCEPT ![k].pc = "failed"]
  /\ enterAR_catch(arStarts[k].pc)
  /\ UNCHANGED <<envVars, appVars, arButton, bodyARMode, orientation, videos, liveTracks,
                 viewerVars, arMode, sessions, check, loads, calls>>

(***************************************************************************)
(* ARMode.resetLighting and ARMode.onSessionEnd.                           *)
(***************************************************************************)
resetLighting == [ambient |-> 6, directional |-> 8]

onSessionEnd_removesModel(renderer) ==
  /\ arMode' = [arMode EXCEPT !.xrSession = Null, !.xrRefSpace = Null,
                              !.xrHitTestSource = Null, !.reticle = Null,
                              !.placedModel = Null]
  /\ scene' = ((scene \ (IF arMode.reticle # Null THEN {Reticle(arMode.reticle)} ELSE {}))
                      \ (IF arMode.placedModel # Null THEN {Clone(arMode.placedModel)} ELSE {}))
                 \ (IF viewerModel # Null THEN {Model(viewerModel)} ELSE {})
  /\ xr' = [renderer EXCEPT !.enabled = FALSE]
  /\ lights' = resetLighting

onSessionEnd_keepsPlacedModel(renderer) ==
  /\ arMode' = [arMode EXCEPT !.xrSession = Null, !.xrRefSpace = Null,
                              !.xrHitTestSource = Null, !.reticle = Null,
                              !.placedModel = Null]
  /\ scene' = scene \ (IF arMode.reticle # Null THEN {Reticle(arMode.reticle)} ELSE {})
  /\ xr' = [renderer EXCEPT !.enabled = FALSE]
  /\ lights' = resetLighting

onSessionEnd(renderer) ==
  /\ arMode' = [arMode EXCEPT !.xrSession = Null, !.xrRefSpace = Null,
                              !.xrHitTestSource = Null, !.reticle = Null,
                              !.placedModel = Null]
  /\ scene' = (scene \ (IF arMode.reticle # Null THEN {Reticle(arMode.reticle)} ELSE {}))
                     \ (IF arMode.placedModel # Null THEN {Clone(arMode.placedModel)} ELSE {})
  /\ xr' = [renderer EXCEPT !.enabled = FALSE]
  /\ lights' = resetLighting

(***************************************************************************)
(* The platform ends a running session (the user leaves AR with the        *)
(* device's own controls); the 'end' event is queued.                      *)
(***************************************************************************)
PlatformEnd(sid) ==
  /\ Running(sid)
  /\ sessions' = [sessions EXCEPT ![sid].state = "ended", ![sid].endQueued = TRUE]
  /\ UNCHANGED <<envVars, appVars, domVars, viewerVars, arMode, check, loads, arStarts, calls>>

(***************************************************************************)
(* The 'end' event of a session is delivered: the renderer drops the       *)
(* session, and the listener added by startARSession, if any, runs.        *)
(***************************************************************************)
SessionEndEvent(sid) ==
  /\ sessions[sid].endQueued
  /\ sessions' = [sessions EXCEPT ![sid].endQueued = FALSE]
  /\ LET dropped == [xr EXCEPT !.session = IF @ = sid THEN Null ELSE @]
     IN  IF sessions[sid].listeners > 0
           THEN onSessionEnd(dropped)
           ELSE /\ xr' = dropped
                /\ UNCHANGED <<arMode, scene, lights>>
  /\ UNCHANGED <<envVars, appVars, domVars, viewerModel, camera, background, xform,
                 check, loads, arStarts, calls>>

(***************************************************************************)
(* ARMode.placeModel, called with the helper's fields am: the fields, the  *)
(* scene and the number of clones made, after the call.                    *)
(***************************************************************************)
placeModel_keepsPrevious(am) ==
  IF viewerModel = Null
    THEN [arMode |-> am, scene |-> scene, clones |-> calls.clones]
    ELSE [arMode |-> [am EXCEPT !.placedModel = calls.clones + 1,
                                !.reticleVisible = FALSE],
          scene |-> scene \cup {Clone(calls.clones + 1)},
          clones |-> calls.clones + 1]

placeModel(am) ==
  IF viewerModel = Null
    THEN [arMode |-> am, scene |-> scene, clones |-> calls.clones]
    ELSE [arMode |-> [am EXCEPT !.placedModel = calls.clones + 1,
                                !.reticleVisible = FALSE],
          scene |-> (scene \ (IF am.placedModel # Null
                                THEN {Clone(am.placedModel)} ELSE {}))
                      \cup {Clone(calls.clones + 1)},
          clones |-> calls.clones + 1]

(***************************************************************************)
(* The XR animation loop set by enterAR calls ARMode.onXRFrame with every  *)
(* frame of the presenting session.  hit: what frame.getHitTestResults and *)
(* getPose answer; pressed: some input source's first button is pressed.   *)
(***************************************************************************)
onXRFrame(hit, pressed) ==
  IF arMode.xrHitTestSource = Null \/ arMode.reticle = Null
    THEN UNCHANGED <<arMode, scene, calls>>
    ELSE IF hit = "none"
      THEN /\ arMode' = [arMode EXCEPT !.reticleVisible = FALSE]
           /\ UNCHANGED <<scene, calls>>
    ELSE IF hit = "nopose"
      THEN UNCHANGED <<arMode, scene, calls>>
    ELSE IF pressed /\ arMode.xrSession # Null
      THEN LET placed == placeModel([arMode EXCEPT !.reticleVisible = TRUE])
           IN  /\ arMode' = placed.arMode
               /\ scene' = placed.scene
               /\ calls' = [calls EXCEPT !.clones = placed.clones]
      ELSE /\ arMode' = [arMode EXCEPT !.reticleVisible = TRUE]
           /\ UNCHANGED <<scene, calls>>

XRFrame ==
  /\ xr.loop = "xr"
  /\ Running(xr.session)
  /\ calls.clones < MaxClones
  /\ \E hit \in {"none", "nopose", "pose"}, pressed \in BOOLEAN : onXRFrame(hit, pressed)
  /\ UNCHANGED <<envVars, appVars, domVars, viewerModel, camera, background, lights, xr,
                 xform, sessions, check, loads, arStarts>>

(***************************************************************************)
(* WebGLARApp.enableDeviceOrientation.                                     *)
(***************************************************************************)
enableDeviceOrientation ==
  IF device.orient = "none" THEN orientation
  ELSE IF device.orient = "permission"
    THEN [orientation EXCEPT !.pending = @ + 1]
    ELSE [orientation EXCEPT !.listeners = @ + 1]

(***************************************************************************)
(* What startARSimulation and startBasicARSimulation share: the AR flag,   *)
(* the button label, the body class, the camera, the model's placement,    *)
(* the instructions and the device orientation.                            *)
(***************************************************************************)
simulationView_noClass(message) ==
  /\ isARActive' = TRUE
  /\ arButton' = [arButton EXCEPT !.textContent = "Exit AR Simulation"]
  /\ bodyARMode' = bodyARMode
  /\ camera' = [position |-> <<0, 0, 30>>, rotation |-> <<0, 0, 0>>]
  /\ xform' = IF currentModel # Null
                THEN [xform EXCEPT ![Model(currentModel)] =
                        [position |-> <<0, -5, 0>>, scale |-> 3]]
                ELSE xform
  /\ errorDiv' = showError(<<message, "">>)
  /\ orientation' = enableDeviceOrientation

simulationView(message) ==
  /\ isARActive' = TRUE
  /\ arButton' = [arButton EXCEPT !.textContent = "Exit AR Simulation"]
  /\ bodyARMode' = TRUE
  /\ camera' = [position |-> <<0, 0, 30>>, rotation |-> <<0, 0, 0>>]
  /\ xform' = IF currentModel # Null
                THEN [xform EXCEPT ![Model(currentModel)] =
                        [position |-> <<0, -5, 0>>, scale |-> 3]]
                ELSE xform
  /\ errorDiv' = showError(<<message, "">>)
  /\ orientation' = enableDeviceOrientation

(***************************************************************************)
(* WebGLARApp.startARSimulation, after getUserMedia resolved:              *)
(* setupCameraBackground adds the video element, then the camera view.     *)
(***************************************************************************)
getUserMedia_resolved(k) ==
  /\ arStarts[k].pc = "getUserMedia"
  /\ arStarts' = [arStarts EXCEPT ![k].pc = "active"]
  /\ liveTracks' = liveTracks \cup {k}
  /\ videos' = videos \cup {k}
  /\ arVideoElement' = k
  /\ background' = "null"
  /\ simulationView("iOS AR Simulation: Camera active")
  /\ UNCHANGED <<envVars, currentModel, hasWebXR, loadingDiv, scene, viewerModel, lights,
                 xr, arMode, sessions, check, loads, calls>>

(***************************************************************************)
(* WebGLARApp.startARSimulation, the catch block: getUserMedia rejected,   *)
(* startBasicARSimulation runs.                                            *)
(***************************************************************************)
startBasicARSimulation_keepsBackground ==
  /\ background' = background
  /\ simulationView("Basic AR Simulation")

startBasicARSimulation ==
  /\ background' = "87CEEB"
  /\ simulationView("Basic AR Simulation")

getUserMedia_rejected(k) ==
  /\ arStarts[k].pc = "getUserMedia"
  /\ arStarts' = [arStarts EXCEPT ![k].pc = "basic"]
  /\ startBasicARSimulation
  /\ UNCHANGED <<envVars, currentModel, hasWebXR, arVideoElement, loadingDiv, videos,
                 liveTracks, scene, viewerModel, lights, xr, arMode, sessions, check,
                 loads, calls>>

(***************************************************************************)
(* DeviceOrientationEvent.requestPermission settles: the listener is added *)
(* when the answer is 'granted'.                                           *)
(***************************************************************************)
requestPermission_settled(granted) ==
  /\ orientation.pending > 0
  /\ orientation' = [pending |-> orientation.pending - 1,
                     listeners |-> orientation.listeners + (IF granted THEN 1 ELSE 0)]
  /\ UNCHANGED <<envVars, appVars, arButton, errorDiv, loadingDiv, bodyARMode, videos,
                 liveTracks, viewerVars, arMode, sessions, check, loads, arStarts, calls>>

(***************************************************************************)
(* A 'deviceorientation' event reaches a registered handleOrientation.     *)
(***************************************************************************)
handleOrientation ==
  /\ orientation.listeners > 0
  /\ camera' = IF isARActive /\ ~hasWebXR
                 THEN [camera EXCEPT !.rotation = <<-90, 0, 0>>]
                 ELSE camera
  /\ UNCHANGED <<envVars, appVars, domVars, scene, viewerModel, background, lights, xr,
                 xform, arMode, sessions, check, loads, arStarts, calls>>

(***************************************************************************)
(* The program.                                                            *)
(***************************************************************************)
Next ==
  \/ InputChange
  \/ Drop
  \/ \E i \in 1..Len(loads) : ReaderOnLoad(i)
  \/ \E i \in 1..Len(loads) : ReaderOnError(i)
  \/ \E i \in 1..Len(loads) : ParseOnLoad(i)
  \/ \E i \in 1..Len(loads) : ParseOnError(i)
  \/ checkARSupport
  \/ checkWebXRSupport
  \/ ARButtonClick
  \/ \E k \in 1..Len(arStarts) : requestSession_resolved(k)
  \/ \E k \in 1..Len(arStarts) : localFloor_resolved(k)
  \/ \E k \in 1..Len(arStarts) : viewerSpace_resolved(k)
  \/ \E k \in 1..Len(arStarts) : hitTestSource_resolved(k)
  \/ \E k \in 1..Len(arStarts) : startARSession_rejected(k)
  \/ \E sid \in 1..Len(sessions) : PlatformEnd(sid)
  \/ \E sid \in 1..Len(sessions) : SessionEndEvent(sid)
  \/ XRFrame
  \/ \E k \in 1..Len(arStarts) : getUserMedia_resolved(k)
  \/ \E k \in 1..Len(arStarts) : getUserMedia_rejected(k)
  \/ \E granted \in BOOLEAN : requestPermission_settled(granted)
  \/ handleOrientation

Spec == Init /\ [][Next]_vars

(***************************************************************************)
(* The validation check: validateFile applied to one file.                 *)
(***************************************************************************)
InitValidate ==
  /\ InitProgram
  /\ device = Device("desktop", FALSE, "opaque", "direct")
  /\ vFile \in ValidationFiles
  /\ vResult = "none"
  /\ vDispatch = NoDispatch

Validate ==
  /\ vResult = "none"
  /\ vResult' = validateFile(vFile)
  /\ vDispatch' = loadModel_result(vFile)
  /\ UNCHANGED <<device, isIOS, vFile, disposed, resize, appVars, domVars, viewerVars,
                 arMode, sessions, check, loads, arStarts, calls>>

SpecValidate == InitValidate /\ [][Validate]_vars

(***************************************************************************)
(* The viewer as a component with its teardown: ModelViewer.dispose, which *)
(* no code of the application calls, and the 'resize' listener that        *)
(* ModelViewer.init registers.  dispose hands removeEventListener a newly  *)
(* created arrow function, which is no registered listener.                *)
(***************************************************************************)
ContainerSizes == {"narrow", "wide"}

onWindowResize(size) == [resize EXCEPT !.size = size]

WindowResize ==
  /\ \E size \in ContainerSizes :
       resize' = IF resize.listeners > 0 THEN onWindowResize(size) ELSE resize
  /\ UNCHANGED <<device, isIOS, vFile, vResult, vDispatch, disposed, appVars, domVars,
                 viewerVars, arMode, sessions, check, loads, arStarts, calls>>

dispose ==
  /\ ~disposed
  /\ disposed' = TRUE
  /\ scene' = clearCurrentModel.scene
  /\ viewerModel' = clearCurrentModel.currentModel
  /\ resize' = resize
  /\ UNCHANGED <<device, isIOS, vFile, vResult, vDispatch, appVars, domVars, camera,
                 background, lights, xr, xform, arMode, sessions, check, loads,
                 arStarts, calls>>

NextViewer ==
  \/ InputChange
  \/ Drop
  \/ \E i \in 1..Len(loads) : ReaderOnLoad(i)
  \/ \E i \in 1..Len(loads) : ReaderOnError(i)
  \/ \E i \in 1..Len(loads) : ParseOnLoad(i)
  \/ \E i \in 1..Len(loads) : ParseOnError(i)
  \/ WindowResize
  \/ dispose

SpecViewer == Init /\ [][NextViewer]_vars

(***************************************************************************)
(*                              Properties                                 *)
(***************************************************************************)

HasSuffix(name, ext) == \E n \in 0..Len(name) : name = SubSeq(name, 1, n) \o ext

AcceptedName(name) ==
  \/ HasSuffix(toLowerCase(name), <<".", "g", "l", "b">>)
  \/ HasSuffix(toLowerCase(name), <<".", "g", "l", "t", "f">>)
  \/ HasSuffix(toLowerCase(name), <<".", "s", "t", "l">>)

\* C1: validateFile returns true exactly for the files whose lower-cased name
\* ends with .glb, .gltf or .stl and whose size is at most 52428800 bytes; any
\* other file makes it throw, for the extension first and for the size second.
C1_ValidateFile ==
  vResult # "none" =>
    /\ vResult = "true" <=> (AcceptedName(vFile.name) /\ vFile.size <= 52428800)
    /\ ~AcceptedName(vFile.name) => vResult = "Unsupported file format"
    /\ (AcceptedName(vFile.name) /\ vFile.size > 52428800) => vResult = "File too large"

\* A file of exactly 50MB with an upper-case extension has been accepted.
C1_Witness ==
  /\ vResult = "true"
  /\ vFile.size = 52428800
  /\ vFile.name # toLowerCase(vFile.name)

ModelsIn(sc) == {o \in sc : o[1] \in {"model", "clone"}}

NewLoad == Len(loads') = Len(loads) + 1

\* C2: loadModel of a file larger than 50MB ends, in the same task, with the
\* error element visible; the file is never read and never parsed; the
\* controller's model, the viewer's model, the scene and the AR button are as
\* they were before.
C2_OversizedRejected ==
  [][ /\ \A i \in 1..Len(loads') :
           loads'[i].file.size > maxSize =>
             loads'[i].reads = 0 /\ loads'[i].parses = 0 /\ loads'[i].pc = "failed"
      /\ (NewLoad /\ loads'[Len(loads')].file.size > maxSize) =>
           /\ errorDiv'.visible
           /\ UNCHANGED <<currentModel, viewerModel, scene, arButton>> ]_vars

\* An oversized file with a supported extension was rejected while a model
\* was displayed and AR was active.
C2_Witness ==
  /\ \E i \in 1..Len(loads) :
       /\ loads[i].file.size > maxSize
       /\ AcceptedName(loads[i].file.name)
       /\ loads[i].pc = "failed"
  /\ errorDiv.visible
  /\ currentModel # Null
  /\ isARActive

\* C3: the scene never holds more than one model object, the viewer's loaded
\* model and the clone placed in AR counted together.
C3_AtMostOneModel == Cardinality(ModelsIn(scene)) <= 1

ARPending(st) == st.pc \in XRPending \cup {"getUserMedia"}

AREntryBegun == isARActive \/ \E k \in 1..Len(arStarts) : ARPending(arStarts[k])

SessionsNotEnded(starts, sess) ==
  { k \in 1..Len(starts) :
      /\ starts[k].mode = "xr"
      /\ \/ starts[k].pc = "requestSession"
         \/ starts[k].pc \in {"localFloor", "viewerSpace", "hitTestSource", "active"}
              /\ sess[starts[k].session].state = "running" }

\* C4: once an AR entry has begun (its session request or camera request is
\* pending, or AR is active) no step issues another navigator.xr.requestSession
\* or getUserMedia call, and at most one AR session is requested and not ended.
C4_NoReentry ==
  [][ /\ AREntryBegun =>
           /\ calls'.requestSession = calls.requestSession
           /\ calls'.getUserMedia = calls.getUserMedia
      /\ Cardinality(SessionsNotEnded(arStarts', sessions')) <= 1 ]_vars

LoadsInFlight == {i \in 1..Len(loads) : InFlight(loads[i])}

ARStartsPending == {k \in 1..Len(arStarts) : ARPending(arStarts[k])}

\* C5: while a model load is pending the file input is disabled, while an AR
\* start is pending the AR button is disabled, and so neither two loads nor
\* two AR starts are in flight together.
C5_PendingDisablesControl ==
  /\ LoadsInFlight # {} => modelInput.disabled
  /\ ARStartsPending # {} => arButton.disabled
  /\ Cardinality(LoadsInFlight) <= 1
  /\ Cardinality(ARStartsPending) <= 1

Completes(i) == loads[i].pc # "done" /\ loads'[i].pc = "done"

\* C6: the step in which loadModel completes for load i leaves the controller
\* and the viewer referring to the model of load i, placed as processModel
\* fitted it, with that model in the scene and every other loaded model,
\* the one displayed before included, out of it.
C6_ReplacedWholesale ==
  [][ \A i \in 1..Len(loads) :
        Completes(i) =>
          /\ currentModel' = i
          /\ viewerModel' = i
          /\ Model(i) \in scene'
          /\ xform'[Model(i)] = processModel(loads[i].file)
          /\ viewerModel # Null /\ viewerModel # i => Model(viewerModel) \notin scene'
          /\ \A j \in 1..Len(loads) : j # i => Model(j) \notin scene' ]_vars

\* Two loads completed, the earlier one's model was displayed and has been
\* replaced by the later one's; and the same with the loads completing in the
\* opposite order.
C6_Witness ==
  /\ Len(loads) = 2
  /\ loads[1].pc = "done" /\ loads[2].pc = "done"
  /\ currentModel = 1
  /\ scene = {Model(1)}

Fails(i) ==
  /\ loads'[i].pc = "failed"
  /\ i <= Len(loads) => loads[i].pc # "failed"

\* C7: a step in which a load fails (at validation, at the file read or at
\* the parse) changes neither the controller's model, the viewer's model, the
\* scene, isARActive nor the AR button; the model displayed stays in the scene.
C7_FailedLoadFrame ==
  [][ (\E i \in 1..Len(loads') : Fails(i)) =>
        /\ UNCHANGED <<currentModel, viewerModel, scene, isARActive, arButton>>
        /\ viewerModel # Null => Model(viewerModel) \in scene' ]_vars

\* A parse failed and a validation failed while an earlier model is displayed.
C7_Witness ==
  /\ Len(loads) = 2
  /\ loads[1].pc = "done"
  /\ loads[2].pc = "failed" /\ loads[2].parses = 1
  /\ currentModel = 1
  /\ Model(1) \in scene

ARFails(k) == ARPending(arStarts[k]) /\ arStarts'[k].pc \in {"failed", "basic"}

IssuedOnce ==
  /\ \A i \in 1..Len(loads') : loads'[i].reads <= 1 /\ loads'[i].parses <= 1
  /\ <<calls'.requestSession, calls'.getUserMedia>> # <<calls.requestSession, calls.getUserMedia>>
       => /\ Len(arStarts') = Len(arStarts) + 1
          /\ calls'.requestSession + calls'.getUserMedia
               = calls.requestSession + calls.getUserMedia + 1
  /\ \A k \in 1..Len(arStarts) :
       ARFails(k) => /\ calls'.requestSession = calls.requestSession
                     /\ calls'.getUserMedia = calls.getUserMedia
  /\ \A i \in 1..Len(loads) :
       (InFlight(loads[i]) /\ loads'[i].pc = "failed")
          => loads'[i].reads = loads[i].reads /\ loads'[i].parses <= 1

\* C8 as stated: every failing operation (load failure, AR session rejection,
\* camera permission denial) ends with the error element visible, carrying a
\* message, and the loading indicator hidden, and no platform call is issued
\* more than once for a user action.
C8_SurfacedNotRetried ==
  [][ /\ (\/ \E i \in 1..Len(loads') : Fails(i)
          \/ \E k \in 1..Len(arStarts) : ARFails(k)
          \/ \E k \in 1..Len(arStarts') : k > Len(arStarts) /\ arStarts'[k].pc = "failed")
         => /\ errorDiv'.visible
            /\ errorDiv'.textContent[1] # ""
            /\ ~loadingDiv'.visible
      /\ IssuedOnce ]_vars

\* C8 amended: every failing operation ends with the error element visible,
\* carrying a message; a load failure and an AR session rejection end with the
\* loading indicator hidden, a camera permission denial leaves the loading
\* indicator as it is; no platform call is issued more than once for a user
\* action.
C8_SurfacedNotRetriedAmended ==
  [][ /\ (\/ \E i \in 1..Len(loads') : Fails(i)
          \/ \E k \in 1..Len(arStarts) : ARFails(k)
          \/ \E k \in 1..Len(arStarts') : k > Len(arStarts) /\ arStarts'[k].pc = "failed")
         => /\ errorDiv'.visible
            /\ errorDiv'.textContent[1] # ""
      /\ (\/ \E i \in 1..Len(loads') : Fails(i)
          \/ \E k \in 1..Len(arStarts) : ARFails(k) /\ arStarts'[k].pc = "failed"
          \/ \E k \in 1..Len(arStarts') : k > Len(arStarts) /\ arStarts'[k].pc = "failed")
         => ~loadingDiv'.visible
      /\ (\E k \in 1..Len(arStarts) : ARFails(k) /\ arStarts'[k].pc = "basic")
         => loadingDiv' = loadingDiv
      /\ IssuedOnce ]_vars

\* The camera was denied while a model load was showing the loading indicator,
\* and an AR session request has been rejected.
C8_Witness ==
  /\ \E k \in 1..Len(arStarts) : arStarts[k].pc = "basic"
  /\ loadingDiv.visible
  /\ errorDiv.visible
  /\ errorDiv.textContent[1] = "Basic AR Simulation"

\* C9: the step in which startARSession rejects leaves no partial AR state:
\* isARActive is false, the helper's session, reference space and hit-test
\* source are null, no reticle is in the scene, renderer.xr.enabled is false,
\* no platform session is running and the lights are as before the attempt.
C9_NoPartialARState ==
  [][ \A k \in 1..Len(arStarts) :
        (arStarts[k].pc \in XRPending /\ arStarts'[k].pc = "failed") =>
          /\ ~isARActive'
          /\ arMode'.xrSession = Null
          /\ arMode'.xrRefSpace = Null
          /\ arMode'.xrHitTestSource = Null
          /\ {o \in scene' : o[1] = "reticle"} = {}
          /\ ~xr'.enabled
          /\ \A sid \in 1..Len(sessions') : sessions'[sid].state # "running"
          /\ lights' = arStarts[k].lights0 ]_vars

Denied(k) == arStarts[k].pc = "getUserMedia" /\ arStarts'[k].pc = "basic"

\* C10 as stated: the step in which getUserMedia rejects shows a message and
\* leaves isARActive false, the body without 'ar-mode', and the camera
\* position, the scene background, the models' position and scale and the
\* orientation listeners unchanged.
C10_DenialChangesNothing ==
  [][ \A k \in 1..Len(arStarts) :
        Denied(k) =>
          /\ errorDiv'.visible
          /\ ~isARActive'
          /\ ~bodyARMode'
          /\ camera'.position = camera.position
          /\ UNCHANGED <<background, xform, orientation>> ]_vars

\* C10 amended: the step in which getUserMedia rejects shows a message and
\* enters the basic simulation: isARActive is true, the body carries
\* 'ar-mode', the button reads 'Exit AR Simulation', the camera is at (0,0,3),
\* the background is sky blue, the current model is at (0,-0.5,0) with scale
\* 0.3, device orientation is enabled where the API exists; no video element
\* is added and getUserMedia is not called again.
C10_DenialStartsBasicSimulation ==
  [][ \A k \in 1..Len(arStarts) :
        Denied(k) =>
          /\ errorDiv'.visible
          /\ errorDiv'.textContent[1] = "Basic AR Simulation"
          /\ isARActive'
          /\ bodyARMode'
          /\ arButton'.textContent = "Exit AR Simulation"
          /\ camera'.position = <<0, 0, 30>>
          /\ background' = "87CEEB"
          /\ currentModel # Null =>
               xform'[Model(currentModel)] = [position |-> <<0, -5, 0>>, scale |-> 3]
          /\ orientation'.listeners + orientation'.pending
               = orientation.listeners + orientation.pending
                   + (IF device.orient = "none" THEN 0 ELSE 1)
          /\ UNCHANGED <<videos, liveTracks, arVideoElement>>
          /\ calls'.getUserMedia = calls.getUserMedia ]_vars

\* The camera was denied on a device with the orientation API and the basic
\* simulation is showing a model fitted with another scale.
C10_Witness ==
  /\ \E k \in 1..Len(arStarts) : arStarts[k].pc = "basic"
  /\ isARActive
  /\ background = "87CEEB"
  /\ device.orient = "permission"
  /\ currentModel # Null
  /\ processModel(loads[currentModel].file).scale # 3
  /\ xform[Model(currentModel)].scale = 3

\* C11: a step taken while no model has been loaded issues no
\* navigator.xr.requestSession and no getUserMedia call, begins no AR entry and
\* leaves isARActive false, and a click on the AR button in such a state shows
\* 'Please load a 3D model first'; isARActive is true only when the
\* controller's currentModel is not null.
C11_ARRequiresModel ==
  [][ /\ currentModel = Null =>
           /\ calls'.requestSession = calls.requestSession
           /\ calls'.getUserMedia = calls.getUserMedia
           /\ arStarts' = arStarts
           /\ ~isARActive'
           /\ ARButtonClick =>
                /\ errorDiv'.visible
                /\ errorDiv'.textContent = <<"Please load a 3D model first", "">>
      /\ isARActive' => currentModel' # Null ]_vars

\* The AR button was clicked with no model loaded: the message is showing and
\* nothing was requested.
C11_Witness ==
  /\ currentModel = Null
  /\ errorDiv.visible
  /\ errorDiv.textContent = <<"Please load a 3D model first", "">>
  /\ ~arButton.disabled
  /\ ~isARActive
  /\ calls.requestSession = 0 /\ calls.getUserMedia = 0

ExitsAR == isARActive /\ ~isARActive'

WasActive(sid) ==
  \E k \in 1..Len(arStarts) :
    arStarts[k].mode = "xr" /\ arStarts[k].pc = "active" /\ arStarts[k].session = sid

EndDelivered(sid) == sessions[sid].endQueued /\ ~sessions'[sid].endQueued

\* C12: the click that exits AR while the helper's session is running calls
\* xrSession.end() exactly once, which ends that session, and requests no new
\* session; the step that delivers the 'end' event of a session whose start
\* had completed leaves ARMode.xrSession, xrRefSpace and xrHitTestSource null,
\* the helper's reticle and placed model out of the scene and null, and
\* renderer.xr.enabled false; exitAR with no session in the helper calls
\* end() on nothing and changes no session.
C12_CancelIsSessionEnd ==
  [][ /\ (ExitsAR /\ hasWebXR /\ Running(arMode.xrSession)) =>
           /\ calls'.end = calls.end + 1
           /\ sessions'[arMode.xrSession].state = "ended"
           /\ sessions'[arMode.xrSession].endQueued
           /\ calls'.requestSession = calls.requestSession
           /\ Len(sessions') = Len(sessions)
           /\ arStarts' = arStarts
      /\ \A sid \in 1..Len(sessions) :
           (EndDelivered(sid) /\ WasActive(sid)) =>
             /\ arMode'.xrSession = Null
             /\ arMode'.xrRefSpace = Null
             /\ arMode'.xrHitTestSource = Null
             /\ arMode'.reticle = Null
             /\ arMode'.placedModel = Null
             /\ arMode.reticle # Null => Reticle(arMode.reticle) \notin scene'
             /\ arMode.placedModel # Null => Clone(arMode.placedModel) \notin scene'
             /\ ~xr'.enabled
      /\ (ExitsAR /\ hasWebXR /\ arMode.xrSession = Null) =>
           /\ calls'.end = calls.end
           /\ sessions' = sessions ]_vars

\* The user exited a WebXR session in which a model had been placed, and its
\* 'end' event has been delivered.
C12_Witness ==
  /\ hasWebXR
  /\ ~isARActive
  /\ calls.end = 1
  /\ calls.clones > 0
  /\ \E sid \in 1..Len(sessions) :
       /\ sessions[sid].state = "ended"
       /\ ~sessions[sid].endQueued
       /\ sessions[sid].listeners > 0
  /\ arMode.xrSession = Null
  /\ arMode.placedModel = Null
  /\ {o \in scene : o[1] \in {"clone", "reticle"}} = {}
  /\ ~xr.enabled

SimulationBegins ==
  /\ Len(arStarts') = Len(arStarts) + 1
  /\ arStarts'[Len(arStarts')].mode = "sim"

SimulationEntered(k) ==
  /\ arStarts[k].pc = "getUserMedia"
  /\ arStarts'[k].pc \in {"active", "basic"}

\* C13 as stated: on every device whose support check has reported AR
\* unavailable, the AR button is enabled once a model is loaded; the click
\* that begins the simulation issues no requestSession call, and when the
\* camera request settles isARActive is true.
C13_FallbackOnEveryDevice ==
  [][ /\ (check'.app = "done" /\ ~hasWebXR' /\ currentModel' # Null) => ~arButton'.disabled
      /\ SimulationBegins => calls'.requestSession = calls.requestSession
      /\ \A k \in 1..Len(arStarts) :
           SimulationEntered(k) =>
             isARActive' /\ calls'.requestSession = calls.requestSession ]_vars

\* C13 amended: on a device whose support check has reported AR unavailable
\* the AR button is enabled once a model is loaded exactly when the device is
\* an iOS device, and stays disabled otherwise; the click that begins the
\* simulation issues one getUserMedia call and no requestSession call, and
\* when the camera request settles isARActive is true, the body carries
\* 'ar-mode' and device orientation is enabled where the API exists.
C13_FallbackOnIOS ==
  [][ /\ (check'.app = "done" /\ ~hasWebXR' /\ currentModel' # Null) =>
           (arButton'.disabled <=> ~isIOS)
      /\ (check'.app = "done" /\ ~hasWebXR' /\ ~isIOS) =>
           (arButton'.disabled /\ ~isARActive' /\ arStarts' = <<>>)
      /\ SimulationBegins =>
           /\ calls'.requestSession = calls.requestSession
           /\ calls'.getUserMedia = calls.getUserMedia + 1
      /\ \A k \in 1..Len(arStarts) :
           SimulationEntered(k) =>
             /\ isARActive'
             /\ bodyARMode'
             /\ calls'.requestSession = calls.requestSession
             /\ orientation'.listeners + orientation'.pending
                  = orientation.listeners + orientation.pending
                      + (IF device.orient = "none" THEN 0 ELSE 1) ]_vars

\* On an iOS device without WebXR the simulation was entered from the enabled
\* button, with the camera, and the orientation listener is registered.
C13_Witness ==
  /\ isIOS /\ ~device.ar
  /\ check.app = "done"
  /\ ~arButton.disabled
  /\ isARActive
  /\ \E k \in 1..Len(arStarts) : arStarts[k].mode = "sim" /\ arStarts[k].pc = "active"
  /\ orientation.listeners > 0
  /\ calls.requestSession = 0

\* C14: for every file, when validateFile accepts the name (it returns true or
\* rejects only for the size) loadModel hands the file to exactly one parser:
\* to the glTF parser, resolving with type 'gltf', exactly when the lower-cased
\* name ends with .glb or .gltf, and to the STL parser, resolving with type
\* 'stl' and an empty animations list, exactly when it ends with .stl; when
\* validateFile rejects the name for its extension, loadModel rejects it as an
\* unsupported format and hands it to no parser.
C14_ValidationAndDispatchAgree ==
  vResult # "none" =>
    LET name == toLowerCase(vFile.name)
        gltfName == HasSuffix(name, <<".", "g", "l", "b">>)
                      \/ HasSuffix(name, <<".", "g", "l", "t", "f">>)
        stlName == HasSuffix(name, <<".", "s", "t", "l">>)
    IN  /\ vResult \in {"true", "File too large"} =>
             /\ vDispatch.parser \in {"gltfLoader", "stlLoader"}
             /\ vDispatch.type # "Unsupported file format"
             /\ gltfName <=> (vDispatch.parser = "gltfLoader" /\ vDispatch.type = "gltf")
             /\ stlName <=> /\ vDispatch.parser = "stlLoader"
                            /\ vDispatch.type = "stl"
                            /\ vDispatch.animations = "[]"
        /\ vResult = "Unsupported file format" =>
             /\ vDispatch.parser = "none"
             /\ vDispatch.type = "Unsupported file format"

\* A .gltf name written in mixed case, with .stl inside the stem, was accepted
\* and handed to the glTF parser.
C14_Witness ==
  /\ vResult = "true"
  /\ vDispatch.parser = "gltfLoader"
  /\ vFile.name = <<"A", ".", "s", "t", "l", ".", "G", "l", "T", "f">>

PcBefore(k) == IF k <= Len(arStarts) THEN arStarts[k].pc ELSE "none"

Frames == {"none", "nopose", "pose"}

\* C15: in every step, a start comes to await requestReferenceSpace
\* ('local-floor') only from awaiting requestSession, in the step that grants
\* its session; it comes to await the 'viewer' space only from awaiting
\* 'local-floor', with xrRefSpace set; it comes to await requestHitTestSource
\* only from awaiting the 'viewer' space; it becomes active only from awaiting
\* requestHitTestSource, with xrHitTestSource set; the XR frame callback is
\* installed only in the step in which a start becomes active; and a step
\* from a state whose hit-test source is null reads no hit-test result: it
\* neither shows the reticle nor places a model, and a frame changes nothing.
C15_FixedSequence ==
  [][ /\ \A k \in 1..Len(arStarts') :
           /\ (arStarts'[k].pc = "localFloor" /\ PcBefore(k) # "localFloor") =>
                /\ PcBefore(k) = "requestSession"
                /\ Len(sessions') = Len(sessions) + 1
                /\ arStarts'[k].session = Len(sessions')
                /\ arMode'.xrSession = Len(sessions')
           /\ (arStarts'[k].pc = "viewerSpace" /\ PcBefore(k) # "viewerSpace") =>
                /\ PcBefore(k) = "localFloor"
                /\ arMode'.xrRefSpace = arStarts'[k].session
           /\ (arStarts'[k].pc = "hitTestSource" /\ PcBefore(k) # "hitTestSource") =>
                PcBefore(k) = "viewerSpace"
           /\ (arStarts'[k].mode = "xr" /\ arStarts'[k].pc = "active"
                 /\ PcBefore(k) # "active") =>
                /\ PcBefore(k) = "hitTestSource"
                /\ arMode'.xrHitTestSource = arStarts'[k].session
      /\ (xr'.loop = "xr" /\ xr.loop # "xr") =>
           \E k \in 1..Len(arStarts) :
             /\ arStarts[k].mode = "xr"
             /\ arStarts[k].pc = "hitTestSource"
             /\ arStarts'[k].pc = "active"
      /\ arMode.xrHitTestSource = Null =>
           /\ calls'.clones = calls.clones
           /\ arMode'.reticleVisible => arMode.reticleVisible
           /\ XRFrame => UNCHANGED <<arMode, scene>> ]_vars

\* A WebXR start went through all four requests, the frame callback is
\* installed and a frame has shown the reticle.
C15_Witness ==
  /\ xr.loop = "xr"
  /\ \E k \in 1..Len(arStarts) :
       /\ arStarts[k].mode = "xr"
       /\ arStarts[k].pc = "active"
       /\ Running(arStarts[k].session)
       /\ arMode.xrSession = arStarts[k].session
       /\ arMode.xrRefSpace = arStarts[k].session
       /\ arMode.xrHitTestSource = arStarts[k].session
  /\ arMode.reticleVisible
  /\ calls.clones = 0

ClonesIn(sc) == {o \in sc : o[1] = "clone"}

Places == calls'.clones # calls.clones

\* C16: a step places a model only as a frame of the installed callback whose
\* hit-test results are non-empty with a non-null pose and with a pressed
\* first button, and with no other frame; a frame whose hit-test results are
\* empty leaves the reticle hidden and places nothing; a placement puts the
\* new clone in the scene, removes the previously placed clone and hides the
\* reticle; the scene never holds more than one placed clone.
C16_PlacedOnlyByTap ==
  [][ /\ Places =>
           /\ XRFrame
           /\ arMode.xrHitTestSource # Null
           /\ onXRFrame("pose", TRUE)
           /\ \A hit \in Frames, pressed \in BOOLEAN :
                onXRFrame(hit, pressed) => (hit = "pose" /\ pressed)
           /\ calls'.clones = calls.clones + 1
           /\ Clone(calls'.clones) \in scene'
           /\ arMode'.placedModel = calls'.clones
           /\ arMode.placedModel # Null => Clone(arMode.placedModel) \notin scene'
           /\ ~arMode'.reticleVisible
      /\ \A pressed \in BOOLEAN :
           (XRFrame /\ arMode.xrHitTestSource # Null /\ onXRFrame("none", pressed)) =>
             /\ ~arMode'.reticleVisible
             /\ ~Places
             /\ scene' = scene
      /\ Cardinality(ClonesIn(scene')) <= 1 ]_vars

\* A second tap has replaced the clone placed by the first.
C16_Witness ==
  /\ calls.clones = 2
  /\ arMode.placedModel = 2
  /\ ClonesIn(scene) = {Clone(2)}
  /\ ~arMode.reticleVisible

\* C17 as stated: the step in which AR ends (exitAR runs, or the 'end' event
\* of a session is delivered) leaves the loaded model out of the scene.
C17_ModelRemovedOnSessionEnd ==
  [][ (ExitsAR \/ \E sid \in 1..Len(sessions) : EndDelivered(sid)) =>
        (viewerModel # Null => Model(viewerModel) \notin scene') ]_vars

\* C17 amended: the loaded model leaves the scene only in the step in which
\* another load completes and replaces it, so it is in the scene whenever the
\* viewer refers to it; the step that delivers the 'end' event of a session
\* whose start had completed removes the placed clone and keeps the loaded
\* model; exitAR leaves the scene as it is.
C17_CloneRemovedOnSessionEnd ==
  [][ /\ \A i \in 1..Len(loads) :
           (Model(i) \in scene /\ Model(i) \notin scene') =>
             \E j \in 1..Len(loads) : j # i /\ Completes(j)
      /\ viewerModel' # Null => Model(viewerModel') \in scene'
      /\ \A sid \in 1..Len(sessions) :
           (EndDelivered(sid) /\ WasActive(sid)) =>
             /\ ClonesIn(scene') = {}
             /\ arMode'.placedModel = Null
             /\ viewerModel # Null => Model(viewerModel) \in scene'
      /\ ExitsAR => scene' = scene ]_vars

\* The platform ended a session in which a model had been placed; after the
\* 'end' event the clone is gone and the loaded model is in the scene.
C17_Witness ==
  /\ calls.end = 0
  /\ calls.clones > 0
  /\ \E sid \in 1..Len(sessions) :
       /\ sessions[sid].state = "ended"
       /\ ~sessions[sid].endQueued
       /\ sessions[sid].listeners > 0
  /\ ClonesIn(scene) = {}
  /\ currentModel # Null
  /\ Model(currentModel) \in scene

\* C18: the step in which exitAR runs leaves no camera video element in the
\* document and no camera track live.
C18_ExitStopsCamera ==
  [][ ExitsAR => (videos' = {} /\ liveTracks' = {}) ]_vars

\* C19: with hasWebXR true, isARActive is true only while ARMode.xrSession is
\* not null; the step that delivers the 'end' event of a session whose start
\* had completed, while AR is still active, leaves isARActive false, the body
\* without 'ar-mode' and no XR animation loop.
C19_FollowsPlatformEnd ==
  [][ /\ (hasWebXR' /\ isARActive') => arMode'.xrSession # Null
      /\ \A sid \in 1..Len(sessions) :
           (EndDelivered(sid) /\ WasActive(sid) /\ isARActive) =>
             /\ ~isARActive'
             /\ ~bodyARMode'
             /\ xr'.loop = "none" ]_vars

\* C20: the step that delivers the 'end' event of one session while the
\* helper refers to another session leaves the helper's xrSession,
\* xrRefSpace, xrHitTestSource, reticle and placed model, and the scene, as
\* they are.
C20_EndCleansOwnSession ==
  [][ \A sid \in 1..Len(sessions) :
        (EndDelivered(sid) /\ arMode.xrSession # Null /\ arMode.xrSession # sid) =>
          /\ arMode'.xrSession = arMode.xrSession
          /\ arMode'.xrRefSpace = arMode.xrRefSpace
          /\ arMode'.xrHitTestSource = arMode.xrHitTestSource
          /\ arMode'.reticle = arMode.reticle
          /\ arMode'.placedModel = arMode.placedModel
          /\ scene' = scene ]_vars

Succeeded == {i \in 1..Len(loads) : loads[i].pc = "done"}

LastOf(S) == CHOOSE m \in S : \A x \in S : x <= m

\* C21: when no load is in flight and some load has succeeded, the
\* controller's currentModel and the viewer's model are those of the load
\* started last among the loads that succeeded, and that model is in the
\* scene.
C21_LastSelectedWins ==
  (LoadsInFlight = {} /\ Succeeded # {}) =>
    /\ currentModel = LastOf(Succeeded)
    /\ viewerModel = LastOf(Succeeded)
    /\ Model(LastOf(Succeeded)) \in scene

LoadedIn(sc) == {o \in sc : o[1] = "model"}

\* C22: in every state either the controller's and the viewer's model
\* references are both null and no loaded model is in the scene, or they refer
\* to the same model and that model is the only loaded model in the scene.
C22_ControllerViewerAgree ==
  \/ /\ currentModel = Null
     /\ viewerModel = Null
     /\ LoadedIn(scene) = {}
  \/ /\ currentModel # Null
     /\ viewerModel = currentModel
     /\ LoadedIn(scene) = {Model(currentModel)}

\* Two overlapping loads completed, the one started first completing last,
\* while a clone placed in AR is in the scene.
C22_Witness ==
  /\ Len(loads) = 2
  /\ loads[1].pc = "done" /\ loads[2].pc = "done"
  /\ currentModel = 1
  /\ viewerModel = 1
  /\ LoadedIn(scene) = {Model(1)}
  /\ ClonesIn(scene) # {}

\* C23: the step in which exitAR leaves the simulation leaves no
\* 'deviceorientation' listener registered, and never is more than one
\* registered.
C23_OrientationListenerRemoved ==
  [][ /\ (ExitsAR /\ ~hasWebXR) => orientation'.listeners = 0
      /\ orientation'.listeners <= 1 ]_vars

\* C24: the step in which exitAR leaves the simulation leaves the loaded model
\* with the position and scale that processModel fitted it with, the camera
\* at its position and rotation before the simulation, and the background as
\* before the simulation.
C24_SimulationRoundTrip ==
  [][ (ExitsAR /\ ~hasWebXR /\ currentModel # Null) =>
        /\ xform'[Model(currentModel)] = processModel(loads[currentModel].file)
        /\ camera' = [position |-> <<0, 0, 50>>, rotation |-> <<0, 0, 0>>]
        /\ background' = "f0f0f0" ]_vars

ExitLabels == {"Exit AR", "Exit AR Simulation"}

\* C25: in every state the AR button reads 'Exit AR' or 'Exit AR Simulation'
\* if and only if isARActive is true.
C25_LabelTellsTruth == (arButton.textContent \in ExitLabels) <=> isARActive

\* C26: in every state document.body carries the class 'ar-mode' if and only
\* if isARActive is true.
C26_ClassFollowsFlag == bodyARMode <=> isARActive

\* AR is active with the class set after one camera request was denied (the
\* basic simulation) and another was granted (the camera simulation); and a
\* WebXR session is active with the class set.
C26_Witness ==
  /\ isARActive
  /\ bodyARMode
  /\ \/ /\ Len(arStarts) = 2
        /\ arStarts[1].pc = "basic"
        /\ arStarts[2].pc = "active"
     \/ /\ Len(arStarts) = 2
        /\ arStarts[1].mode = "xr" /\ arStarts[1].pc = "active"
        /\ arStarts[2].mode = "xr" /\ arStarts[2].pc = "active"

\* C27: in every state after the WebXR support check has completed, the AR
\* button is enabled if and only if the check reported WebXR AR supported, or
\* the device is an iOS device and a model has been loaded; on a device that
\* is not iOS and has no WebXR AR it is disabled.
C27_EnablementPolicy ==
  check.app = "done" =>
    /\ hasWebXR = device.ar
    /\ ~arButton.disabled <=> (hasWebXR \/ (isIOS /\ currentModel # Null))
    /\ (~isIOS /\ ~device.ar) => arButton.disabled

\* Without WebXR AR: two models were loaded on a device that is not iOS and
\* the button is disabled; on an iOS device a model was loaded and the button
\* is enabled.
C27_Witness ==
  /\ check.app = "done"
  /\ ~device.ar
  /\ \/ /\ ~isIOS
        /\ Len(loads) = 2 /\ loads[1].pc = "done" /\ loads[2].pc = "done"
        /\ arButton.disabled
     \/ /\ isIOS
        /\ currentModel # Null
        /\ ~arButton.disabled
        /\ arStarts = <<>>

\* C28: the step in which ModelViewer.dispose runs leaves the viewer's model
\* null and out of the scene and no 'resize' listener of the viewer registered
\* on window; after it no resize event resizes the renderer.
C28_DisposeUndoesInit ==
  [][ /\ (~disposed /\ disposed') =>
           /\ viewerModel' = Null
           /\ viewerModel # Null => Model(viewerModel) \notin scene'
           /\ resize'.listeners = 0
      /\ disposed => resize'.size = resize.size ]_vars

====
